---- MODULE Spec2Model ----
(***************************************************************************)
(* Model of honeybees' Reporter (src/honeybees/reporter.py).               *)
(*                                                                         *)
(* Two specifications share the module:                                    *)
(*   Spec      - the Reporter object: construction (which runs step()),    *)
(*               further step() calls, report(), and the simulation        *)
(*               engine advancing time and mutating the agents.            *)
(*   SpecGroup - the two @njit static reducers sum_per_ID / mean_per_ID    *)
(*               applied to bounded inputs.                                *)
(***************************************************************************)
EXTENDS Integers, Sequences, FiniteSets, TLC

VARIABLES
    config,            \* self.model.config['report'] : sequence of directives (dict order)
    cupy,              \* whether the optional cupy import succeeded (lines 25-28)
    agents,            \* the agent collection read through getattr (external collaborator)
    current_timestep,  \* self.model.current_timestep
    current_time,      \* self.model.current_time
    timesteps,         \* self.timesteps
    variables,         \* self.variables
    exports,           \* log of export_value invocations (observable: the files written)
    status,            \* "live" | "dead" (the constructor raised: no object exists)
    last,              \* outcome of the last step() call
    reported,          \* outcome of the last report() call
    g_call,            \* SpecGroup: the arguments of a reducer call
    g_ret              \* SpecGroup: what the call produced

vars == <<config, cupy, agents, current_timestep, current_time, timesteps,
          variables, exports, status, last, reported, g_call, g_ret>>

mainVars == <<config, cupy, agents, current_timestep, current_time, timesteps,
              variables, exports, status, last, reported>>

(***************************************************************************)
(* Bounds.                                                                 *)
(***************************************************************************)
MaxSteps == 3      \* step() calls in a run, the constructor's included
MaxLen == 2        \* SpecGroup: longest value / group-id array
MaxGroups == 2     \* SpecGroup: largest n_groups
MaxVal == 2        \* SpecGroup: values are 0..MaxVal

(***************************************************************************)
(* Values.  A scalar is a record                                           *)
(*   np : TRUE for a numpy scalar / array element, FALSE for native Python *)
(*   k  : "num" (int or finite float, the rational n/d), "inf", "nan",     *)
(*        "str" (any non-numeric object), "none"                           *)
(* A value is a scalar, a numpy array or a Python list of scalars.         *)
(***************************************************************************)
Scalar(np, k, n, d) == [np |-> np, k |-> k, n |-> n, d |-> d]
Num(np, n) == Scalar(np, "num", n, 1)
Inf(np) == Scalar(np, "inf", 0, 1)
NaN(np) == Scalar(np, "nan", 0, 1)
Str(np) == Scalar(np, "str", 0, 1)

Value(c, e) == [c |-> c, e |-> e]
ScalarValue(s) == Value("scalar", <<s>>)

RECURSIVE GCD(_, _)
GCD(a, b) == IF b = 0 THEN a ELSE GCD(b, a % b)

\* the rational n/d in lowest terms (d > 0, n >= 0 in this model)
Frac(np, n, d) ==
    LET g == GCD(n, d)
    IN  IF g = 0 THEN Scalar(np, "num", 0, 1) ELSE Scalar(np, "num", n \div g, d \div g)

\* IEEE addition over the kinds the model holds (no negative infinity arises)
Add(a, b) ==
    IF a.k = "nan" \/ b.k = "nan" THEN NaN(TRUE)
    ELSE IF a.k = "inf" \/ b.k = "inf" THEN Inf(TRUE)
    ELSE Frac(TRUE, a.n * b.d + b.n * a.d, a.d * b.d)

\* sum / count as numpy's element-wise true division: 0/0 is nan, x/0 is inf
Div(a, cnt) ==
    IF a.k = "nan" THEN NaN(TRUE)
    ELSE IF a.k = "inf" THEN Inf(TRUE)
    ELSE IF cnt = 0 THEN (IF a.n = 0 THEN NaN(TRUE) ELSE Inf(TRUE))
    ELSE Frac(TRUE, a.n, a.d * cnt)

Zeros(n) == [i \in 1..n |-> Num(TRUE, 0)]
ZeroCounts(n) == [i \in 1..n |-> 0]

(***************************************************************************)
(* GroupReducer: mean_per_ID and sum_per_ID.  The loops are compiled by    *)
(* numba: a negative index in [-n, -1] wraps around to n + index, and an   *)
(* index below -n is an unchecked out-of-bounds access, whose outcome      *)
(* (oob) is either a crash or a write that lands outside the array.        *)
(***************************************************************************)
Outcome(st, r) == [st |-> st, r |-> r]

\* the 1-based slot of the result array that index group_id addresses
Slot(group_id, n_groups) ==
    IF group_id >= 0 THEN group_id + 1 ELSE group_id + n_groups + 1

\* sum_loop with the accumulation written as an assignment (= for +=)
RECURSIVE sum_loop_overwrite(_, _, _, _, _, _)
sum_loop_overwrite(values, group_ids, n_groups, oob, i, sum_per_group) ==
    IF i > Len(values) THEN Outcome("ok", sum_per_group)
    ELSE LET group_id == group_ids[i]
         IN  IF ~(group_id < n_groups) THEN Outcome("assert", <<>>)
             ELSE IF group_id < -n_groups
                  THEN IF oob = "crash" THEN Outcome("crash", <<>>)
                       ELSE sum_loop_overwrite(values, group_ids, n_groups, oob, i + 1,
                                               sum_per_group)
             ELSE sum_loop_overwrite(values, group_ids, n_groups, oob, i + 1,
                                     [sum_per_group EXCEPT ![Slot(group_id, n_groups)] =
                                          values[i]])

RECURSIVE sum_loop(_, _, _, _, _, _)
sum_loop(values, group_ids, n_groups, oob, i, sum_per_group) ==
    IF i > Len(values) THEN Outcome("ok", sum_per_group)
    ELSE LET group_id == group_ids[i]
         IN  IF ~(group_id < n_groups) THEN Outcome("assert", <<>>)
             ELSE IF group_id < -n_groups
                  THEN IF oob = "crash" THEN Outcome("crash", <<>>)
                       ELSE sum_loop(values, group_ids, n_groups, oob, i + 1, sum_per_group)
             ELSE sum_loop(values, group_ids, n_groups, oob, i + 1,
                           [sum_per_group EXCEPT ![Slot(group_id, n_groups)] =
                                Add(@, values[i])])

sum_per_ID(values, group_ids, n_groups, oob) ==
    IF Len(values) # Len(group_ids) THEN Outcome("assert", <<>>)
    ELSE sum_loop(values, group_ids, n_groups, oob, 1, Zeros(n_groups))

RECURSIVE mean_loop(_, _, _, _, _, _, _)
mean_loop(values, group_ids, n_groups, oob, i, count_per_group, sum_per_group) ==
    IF i > Len(values)
    THEN Outcome("ok", [g \in 1..n_groups |-> Div(sum_per_group[g], count_per_group[g])])
    ELSE LET group_id == group_ids[i]
         IN  IF ~(group_id < n_groups) THEN Outcome("assert", <<>>)
             ELSE IF group_id < -n_groups
                  THEN IF oob = "crash" THEN Outcome("crash", <<>>)
                       ELSE mean_loop(values, group_ids, n_groups, oob, i + 1,
                                      count_per_group, sum_per_group)
             ELSE mean_loop(values, group_ids, n_groups, oob, i + 1,
                            [count_per_group EXCEPT ![Slot(group_id, n_groups)] = @ + 1],
                            [sum_per_group EXCEPT ![Slot(group_id, n_groups)] =
                                 Add(@, values[i])])

mean_per_ID(values, group_ids, n_groups, oob) ==
    IF Len(values) # Len(group_ids) THEN Outcome("assert", <<>>)
    ELSE mean_loop(values, group_ids, n_groups, oob, 1,
                   ZeroCounts(n_groups), Zeros(n_groups))

(***************************************************************************)
(* Configuration.  A directive is one entry of config['report'].  Absent   *)
(* keys are the value "missing" ('save', 'format'), FALSE ('split',        *)
(* 'initial_only', has_ids for 'ids') or "absent" ('frequency').           *)
(*   varname  : which attribute of the collection is read.  The collection *)
(*              holds the same per-entity numbers as a numpy array "arr",  *)
(*              a list of numpy scalars "lst", a list of Python floats     *)
(*              "pylst" and a numpy array of strings "strarr"; "missing"   *)
(*              names no attribute.                                        *)
(*   function : None, 'mean', 'sum', a callable, or an unknown string.     *)
(***************************************************************************)
NAMES == <<"n1", "n2">>

Default ==
    [varname |-> "arr", function |-> "none", has_ids |-> FALSE, n_groups |-> 2,
     split |-> FALSE, save |-> "save", initial_only |-> FALSE,
     frequency |-> "absent", format |-> "npy"]

Overrides ==
    {"same",
     "varname=lst", "varname=pylst", "varname=strarr", "varname=missing",
     "function=mean", "function=sum", "function=callable", "function=bogus",
     "ids=1", "ids=2", "split",
     "save=export", "save=save+export", "save=missing", "save=bogus",
     "initial_only", "frequency=initial_only",
     "format=csv", "format=xlsx", "format=missing"}

Apply(d, o) ==
    CASE o = "varname=lst" -> [d EXCEPT !.varname = "lst"]
      [] o = "varname=pylst" -> [d EXCEPT !.varname = "pylst"]
      [] o = "varname=strarr" -> [d EXCEPT !.varname = "strarr"]
      [] o = "varname=missing" -> [d EXCEPT !.varname = "missing"]
      [] o = "function=mean" -> [d EXCEPT !.function = "mean"]
      [] o = "function=sum" -> [d EXCEPT !.function = "sum"]
      [] o = "function=callable" -> [d EXCEPT !.function = "callable"]
      [] o = "function=bogus" -> [d EXCEPT !.function = "bogus"]
      [] o = "ids=1" -> [d EXCEPT !.has_ids = TRUE, !.n_groups = 1]
      [] o = "ids=2" -> [d EXCEPT !.has_ids = TRUE, !.n_groups = 2]
      [] o = "split" -> [d EXCEPT !.split = TRUE]
      [] o = "save=export" -> [d EXCEPT !.save = "export"]
      [] o = "save=save+export" -> [d EXCEPT !.save = "save+export"]
      [] o = "save=missing" -> [d EXCEPT !.save = "missing"]
      [] o = "save=bogus" -> [d EXCEPT !.save = "bogus"]
      [] o = "initial_only" -> [d EXCEPT !.initial_only = TRUE]
      [] o = "frequency=initial_only" -> [d EXCEPT !.frequency = "initial_only"]
      [] o = "format=csv" -> [d EXCEPT !.format = "csv"]
      [] o = "format=xlsx" -> [d EXCEPT !.format = "xlsx"]
      [] o = "format=missing" -> [d EXCEPT !.format = "missing"]
      [] OTHER -> d

\* the directives explored: the default with up to two keys changed
Directives == {Apply(Apply(Default, o1), o2) : o1 \in Overrides, o2 \in Overrides}
Singles == {Apply(Default, o) : o \in Overrides}

\* the report tables explored: none, one directive, or a directive with one
\* key changed beside a plain 'save' directive, in either order
Configs ==
    {<<>>} \cup {<<d>> : d \in Directives}
           \cup {<<Default, d>> : d \in Singles}
           \cup {<<d, Default>> : d \in Singles}

(***************************************************************************)
(* The agent collection: its id list and one number (or inf) per entity.   *)
(* The group of an entity (the 'scale' attribute) is fixed by its id.      *)
(***************************************************************************)
IDS == {"a", "b"}
Vals == {1, 2}
\* the numbers entity id may hold: a's value varies (and may overflow to
\* infinity), b's stays 2
ElemsOf(id) ==
    IF id = "a" THEN {Num(TRUE, v) : v \in Vals} \cup {Inf(TRUE)}
    ELSE {Num(TRUE, 2)}
IdLists == {<<"a">>, <<"a", "b">>}
AgentStates ==
    UNION {{[ids |-> il, elems |-> el] :
                el \in {f \in [1..Len(il) -> UNION {ElemsOf(id) : id \in IDS}] :
                            \A i \in 1..Len(il) : f[i] \in ElemsOf(il[i])}} :
           il \in IdLists}
GroupOf(id) == IF id = "a" THEN 0 ELSE 1

\* getattr(agents, varname) for the attributes that exist
Attr(ag, varname) ==
    CASE varname = "arr" -> Value("ndarray", ag.elems)
      [] varname = "lst" -> Value("list", ag.elems)
      [] varname = "pylst" ->
            Value("list", [i \in 1..Len(ag.elems) |-> [ag.elems[i] EXCEPT !.np = FALSE]])
      [] OTHER -> Value("ndarray", [i \in 1..Len(ag.elems) |-> Str(TRUE)])

\* getattr(agents, conf['scale'])
Scale(ag) == [i \in 1..Len(ag.ids) |-> GroupOf(ag.ids[i])]

(***************************************************************************)
(* ValueValidator.                                                         *)
(***************************************************************************)
\* check_value: "value" passes, "ValueError" or "AssertionError" is raised
check_value(s) ==
    IF ~(s.k \in {"num", "inf", "nan"} \/ s.k = "none") THEN "ValueError"
    ELSE IF s.k = "inf" THEN "AssertionError"
    ELSE "ok"

Item(s) == [s EXCEPT !.np = FALSE]

IsNumpy(value) ==
    value.c = "ndarray" \/ (value.c = "scalar" /\ value.e[1].np)

\* lines 118-126 of report_value: unwrap a size-1 numpy value or the items
\* of a list, validating what was unwrapped.  [ok, v]
Unwrap(value) ==
    IF IsNumpy(value)
    THEN IF Len(value.e) = 1
         THEN [ok |-> check_value(Item(value.e[1])) = "ok",
               v |-> ScalarValue(Item(value.e[1]))]
         ELSE [ok |-> TRUE, v |-> value]
    ELSE IF value.c = "list"
    THEN IF \E i \in 1..Len(value.e) : ~value.e[i].np
         THEN [ok |-> FALSE, v |-> value]   \* a Python scalar has no .item()
         ELSE [ok |-> \A i \in 1..Len(value.e) : check_value(Item(value.e[i])) = "ok",
               v |-> Value("list", [i \in 1..Len(value.e) |-> Item(value.e[i])])]
    ELSE [ok |-> TRUE, v |-> value]

(***************************************************************************)
(* Exporter.  An export_value invocation is logged as                      *)
(*   [name, call, ok, file, t, ext]                                        *)
(* call is the index of the step() call, file is "initial", "timestamp"    *)
(* (the ISO form of time t with '-' and ':' removed) or "none" when the    *)
(* call raised before writing.                                             *)
(***************************************************************************)
ExportRec(name, call, ok, file, t, ext) ==
    [name |-> name, call |-> call, ok |-> ok, file |-> file, t |-> t, ext |-> ext]

\* fn of lines 90-93
FileName(conf) ==
    IF conf.frequency = "initial_only" THEN "initial" ELSE "timestamp"

\* m is the environment of the call: [agents, cupy, current_timestep, call, now]
export_value(m, name, isTuple, value, conf) ==
    LET bad == ExportRec(name, m.call, FALSE, "none", m.now, "none")
        fn == FileName(conf)
    IN  IF isTuple THEN bad                       \* os.path.join(folder, tuple)
        ELSE IF conf.format = "missing" THEN bad
        ELSE IF conf.format = "npy"
             THEN ExportRec(name, m.call, TRUE, fn, m.now, "npy")
        ELSE IF conf.format = "csv"
             THEN IF ~m.cupy THEN bad              \* cp is not defined (line 101)
                  ELSE IF value.c = "scalar" /\ value.e[1].k # "str"
                       THEN bad                    \* len() of a number or None
                  ELSE ExportRec(name, m.call, TRUE, fn, m.now, "csv")
        ELSE bad                                   \* format not recognized

(***************************************************************************)
(* ValueStore.  self.variables maps a name to an entry                     *)
(*   [split |-> FALSE, s |-> the list]          or                         *)
(*   [split |-> TRUE,  m |-> id :> the list]                               *)
(***************************************************************************)
NoVariables == [x \in {} |-> 0]
NoIds == [x \in {} |-> <<>>]
ListEntry(s) == [split |-> FALSE, s |-> s, m |-> NoIds]
DictEntry(m) == [split |-> TRUE, s |-> <<>>, m |-> m]

Put(f, k, v) == [x \in DOMAIN f \cup {k} |-> IF x = k THEN v ELSE f[x]]

\* store_append with the list of an id created anew on every call
store_append_reset(vs, name, ID, isTuple, value) ==
    IF isTuple
    THEN LET d == IF name \in DOMAIN vs THEN vs[name].m ELSE NoIds
         IN  Put(vs, name, DictEntry(Put(d, ID, <<value>>)))
    ELSE LET l == IF name \in DOMAIN vs THEN vs[name].s ELSE <<>>
         IN  Put(vs, name, ListEntry(Append(l, value)))

\* lines 142-152 of report_value
store_append(vs, name, ID, isTuple, value) ==
    IF isTuple
    THEN LET d == IF name \in DOMAIN vs THEN vs[name].m ELSE NoIds
             l == IF ID \in DOMAIN d THEN d[ID] ELSE <<>>
         IN  Put(vs, name, DictEntry(Put(d, ID, Append(l, value))))
    ELSE LET l == IF name \in DOMAIN vs THEN vs[name].s ELSE <<>>
         IN  Put(vs, name, ListEntry(Append(l, value)))

\* the state threaded through one step() call
Fail(st) == [st EXCEPT !.ok = FALSE]

\* whether report_value calls export_value (lines 133-138)
export_due(m, conf) ==
    /\ conf.save \in {"export", "save+export"}
    /\ (conf.initial_only => m.current_timestep = 0)

\* report_value with buffering gated by initial_only, as the export is
report_value_gated(m, st, name, ID, isTuple, value0, conf) ==
    LET u == Unwrap(value0)
        value == u.v
    IN  IF ~u.ok THEN Fail(st)
        ELSE IF conf.save \notin {"save", "export", "save+export"} THEN Fail(st)
        ELSE LET due == export_due(m, conf)
                 rec == export_value(m, name, isTuple, value, conf)
                 ex == IF due THEN Append(st.exports, rec) ELSE st.exports
             IN  IF due /\ ~rec.ok THEN [st EXCEPT !.ok = FALSE, !.exports = ex]
                 ELSE IF /\ conf.save \in {"save", "save+export"}
                         /\ (conf.initial_only => m.current_timestep = 0)
                      THEN [st EXCEPT !.exports = ex,
                                      !.variables = store_append(@, name, ID, isTuple, value)]
                      ELSE [st EXCEPT !.exports = ex]

\* report_value with the append moved before the export
report_value_append_first(m, st, name, ID, isTuple, value0, conf) ==
    LET u == Unwrap(value0)
        value == u.v
    IN  IF ~u.ok THEN Fail(st)
        ELSE IF conf.save \notin {"save", "export", "save+export"} THEN Fail(st)
        ELSE LET due == export_due(m, conf)
                 rec == export_value(m, name, isTuple, value, conf)
                 ex == IF due THEN Append(st.exports, rec) ELSE st.exports
                 vs == IF conf.save \in {"save", "save+export"}
                       THEN store_append(st.variables, name, ID, isTuple, value)
                       ELSE st.variables
             IN  [st EXCEPT !.ok = ~(due /\ ~rec.ok), !.exports = ex, !.variables = vs]

report_value(m, st, name, ID, isTuple, value0, conf) ==
    LET u == Unwrap(value0)
        value == u.v
    IN  IF ~u.ok THEN Fail(st)
        ELSE IF conf.save \notin {"save", "export", "save+export"} THEN Fail(st)
        ELSE LET due == export_due(m, conf)
                 rec == export_value(m, name, isTuple, value, conf)
                 ex == IF due THEN Append(st.exports, rec) ELSE st.exports
             IN  IF due /\ ~rec.ok THEN [st EXCEPT !.ok = FALSE, !.exports = ex]
                 ELSE IF conf.save \in {"save", "save+export"}
                      THEN [st EXCEPT !.exports = ex,
                                      !.variables = store_append(@, name, ID, isTuple, value)]
                      ELSE [st EXCEPT !.exports = ex]

(***************************************************************************)
(* Reductions over a whole value (np.sum, np.mean, the callable).          *)
(***************************************************************************)
RECURSIVE SumSeq(_, _)
SumSeq(e, i) == IF i > Len(e) THEN Num(TRUE, 0) ELSE Add(e[i], SumSeq(e, i + 1))

HasStr(value) == \E i \in 1..Len(value.e) : value.e[i].k = "str"

\* [ok, v]: np.sum raises on an array of strings
np_sum(value) ==
    IF HasStr(value) THEN [ok |-> FALSE, v |-> value]
    ELSE [ok |-> TRUE, v |-> ScalarValue(SumSeq(value.e, 1))]

np_mean(value) ==
    IF HasStr(value) THEN [ok |-> FALSE, v |-> value]
    ELSE [ok |-> TRUE, v |-> ScalarValue(Div(SumSeq(value.e, 1), Len(value.e)))]

\* the callable of the directive is user code; the one modelled is
\* lambda x, *rest: float(np.max(x)), which returns a native Python float
MaxSeq(e) ==
    IF \E i \in 1..Len(e) : e[i].k = "inf" THEN Inf(FALSE)
    ELSE Num(FALSE, CHOOSE n \in {e[i].n : i \in 1..Len(e)} :
                        \A j \in 1..Len(e) : e[j].n <= n)

callable(value) ==
    IF HasStr(value) THEN [ok |-> FALSE, v |-> value]
    ELSE [ok |-> TRUE, v |-> ScalarValue(MaxSeq(value.e))]

\* fn(values, group_ids, n_groups) of line 227 for the two numba reducers:
\* they compile only for a numeric numpy array
per_ID(function, values, group_ids, n_groups) ==
    IF values.c # "ndarray" \/ HasStr(values) THEN [ok |-> FALSE, v |-> values]
    ELSE LET r == IF function = "mean"
                  THEN mean_per_ID(values.e, group_ids, n_groups, "crash")
                  ELSE sum_per_ID(values.e, group_ids, n_groups, "crash")
         IN  [ok |-> r.st = "ok", v |-> Value("ndarray", r.r)]

(***************************************************************************)
(* Extractor.                                                              *)
(***************************************************************************)
\* the data the non-grouped reduction is applied to (line 237)
reduced_data(m, values, conf) == Attr(m.agents, conf.varname)

parse_agent_data(m, st, name, ID, isTuple, values, conf) ==
    IF conf.function = "none"
    THEN report_value(m, st, name, ID, isTuple, values, conf)
    ELSE IF conf.function \notin {"callable", "mean", "sum"} THEN Fail(st)
    ELSE LET r == IF conf.has_ids
                  THEN IF conf.function = "callable" THEN callable(values)
                       ELSE per_ID(conf.function, values, Scale(m.agents), conf.n_groups)
                  ELSE LET data == reduced_data(m, values, conf)
                       IN  CASE conf.function = "callable" -> callable(data)
                             [] conf.function = "mean" -> np_mean(data)
                             [] OTHER -> np_sum(data)
         IN  IF ~r.ok THEN Fail(st)
             ELSE report_value(m, st, name, ID, isTuple, r.v, conf)

\* the pairs of zip(agents.ids, values): iterating a numpy array yields
\* numpy scalars, iterating a list yields its items
Zip(ids, values) ==
    LET n == IF Len(ids) < Len(values.e) THEN Len(ids) ELSE Len(values.e)
    IN  [i \in 1..n |-> [ID |-> ids[i], admin_values |-> ScalarValue(values.e[i])]]

\* the one element of a singleton set
Only(S) == CHOOSE x \in S : TRUE

RECURSIVE split_loop(_, _, _, _, _, _)
split_loop(m, st, name, pairs, i, conf) ==
    IF i > Len(pairs) \/ ~st.ok THEN st
    ELSE Only({split_loop(m, st1, name, pairs, i + 1, conf) :
                 st1 \in {parse_agent_data(m, st, name, pairs[i].ID, TRUE,
                                           pairs[i].admin_values, conf)}})

extract_agent_data(m, st, name, conf) ==
    IF conf.varname = "missing" THEN Fail(st)
    ELSE LET values == Attr(m.agents, conf.varname)
         IN  IF conf.split
             THEN split_loop(m, st, name, Zip(m.agents.ids, values), 1, conf)
             ELSE parse_agent_data(m, st, name, "", FALSE, values, conf)

(***************************************************************************)
(* Orchestrator: step() and report().                                      *)
(***************************************************************************)
NameOf(i) == NAMES[i]

RECURSIVE step_loop(_, _, _, _)
step_loop(m, st, cfg, i) ==
    IF i > Len(cfg) THEN st
    ELSE Only({IF ~st1.ok THEN [st1 EXCEPT !.k = i]      \* the exception propagates
               ELSE step_loop(m, st1, cfg, i + 1) :
                 st1 \in {extract_agent_data(m, st, NameOf(i), cfg[i])}})

\* step(): [timesteps, variables, exports, ok, k]; k is the directive that raised
step(cfg, cu, ag, cts, ctime, ts, vs, ex) ==
    LET ts1 == Append(ts, ctime)
        m == [agents |-> ag, cupy |-> cu, current_timestep |-> cts,
              call |-> Len(ts1), now |-> ctime]
        st == step_loop(m, [variables |-> vs, exports |-> ex, ok |-> TRUE, k |-> 0], cfg, 1)
    IN  [timesteps |-> ts1, variables |-> st.variables, exports |-> st.exports,
         ok |-> st.ok, k |-> st.k]

IsArray(value) == value.c \in {"ndarray", "list"}

\* the columns {k: v for k, v in zip(self.timesteps, values)}: a later value
\* replaces an earlier one recorded at the same time
Columns(ts, s) ==
    LET n == IF Len(ts) < Len(s) THEN Len(ts) ELSE Len(s)
    IN  {i \in 1..n : \A j \in (i + 1)..n : ts[j] # ts[i]}

\* whether pandas builds the table of lines 268-279; lenient says whether the
\* installed numpy turns a ragged list into an object column instead of raising
table_ok(entry, ts, lenient) ==
    IF entry.split
    THEN \A id \in DOMAIN entry.m : Len(entry.m[id]) = Len(ts)
    ELSE IF IsArray(entry.s[1])
    THEN \A i, j \in Columns(ts, entry.s) :
            (IsArray(entry.s[i]) /\ IsArray(entry.s[j]))
                => Len(entry.s[i].e) = Len(entry.s[j].e)
    ELSE /\ Len(entry.s) = Len(ts)
         /\ (lenient \/ \A i \in 1..Len(entry.s) : ~IsArray(entry.s[i]))

\* the value report() returns: report_dict is created empty and returned
report_dict(tables) == {}

RECURSIVE report_loop(_, _, _, _, _, _)
report_loop(cfg, vs, ts, lenient, i, tables) ==
    IF i > Len(cfg) THEN [ok |-> TRUE, tables |-> tables, dict |-> report_dict(tables)]
    ELSE IF NameOf(i) \notin DOMAIN vs THEN report_loop(cfg, vs, ts, lenient, i + 1, tables)
    ELSE IF ~table_ok(vs[NameOf(i)], ts, lenient) \/ cfg[i].format = "missing"
         THEN [ok |-> FALSE, tables |-> tables, dict |-> {}]
    ELSE report_loop(cfg, vs, ts, lenient, i + 1, tables \cup {NameOf(i)})

\* report(): self.variables is iterated in insertion order, which is the
\* configuration's order
report(cfg, vs, ts, lenient) == report_loop(cfg, vs, ts, lenient, 1, {})

(***************************************************************************)
(* The Reporter as a state machine.                                        *)
(***************************************************************************)
NoCall == [fn |-> "none", values |-> <<>>, group_ids |-> <<>>, n_groups |-> 0]
NoRet == [fn |-> "none", st |-> "none", r |-> <<>>]
NoReport == [called |-> FALSE, ok |-> FALSE, names |-> {}, tables |-> {}, dict |-> {}]

\* what is remembered of the last step() call: whether it completed, the
\* directive that raised, the store and the time list before the call, the
\* agents it read, and whether every call so far completed
Last(r, vs, ts, ag, clean) ==
    [ok |-> r.ok, k |-> r.k, before |-> vs, tbefore |-> ts, agents |-> ag,
     clean |-> clean /\ r.ok]

\* cupy is read by the csv branch of export_value alone (line 101), so its
\* absence is explored for the configurations that can reach that branch
UsesCsvExport(cfg) ==
    \E i \in 1..Len(cfg) :
        cfg[i].format = "csv" /\ cfg[i].save \in {"export", "save+export"}

\* __init__: the state after construction, which runs step() once
Init ==
    /\ config \in Configs
    /\ cupy \in (IF UsesCsvExport(config) THEN BOOLEAN ELSE {TRUE})
    /\ agents \in AgentStates
    /\ current_timestep = 0
    /\ current_time = 0
    /\ \E r \in {step(config, cupy, agents, 0, 0, <<>>, NoVariables, <<>>)} :
           /\ timesteps = r.timesteps
           /\ variables = r.variables
           /\ exports = r.exports
           /\ status = IF r.ok THEN "live" ELSE "dead"
           /\ last = Last(r, NoVariables, <<>>, agents, TRUE)
    /\ reported = NoReport
    /\ g_call = NoCall
    /\ g_ret = NoRet

\* a step() call by the simulation loop; the loop may call it before or
\* after the engine advances current_timestep
Step ==
    /\ status = "live"
    /\ ~reported.called
    /\ Len(timesteps) < MaxSteps
    /\ \E r \in {step(config, cupy, agents, current_timestep, current_time,
                        timesteps, variables, exports)} :
           /\ timesteps' = r.timesteps
           /\ variables' = r.variables
           /\ exports' = r.exports
           /\ last' = Last(r, variables, timesteps, agents, last.clean)
    /\ UNCHANGED <<config, cupy, agents, current_timestep, current_time, status,
                   reported, g_call, g_ret>>

\* the simulation engine ends a tick: time advances and the agents change
\* (explored for as many ticks as step() calls were made)
Advance ==
    /\ status = "live"
    /\ ~reported.called
    /\ current_timestep < Len(timesteps)
    /\ Len(timesteps) < MaxSteps
    /\ current_timestep' = current_timestep + 1
    /\ current_time' = current_time + 1
    /\ agents' \in AgentStates
    /\ UNCHANGED <<config, cupy, timesteps, variables, exports, status, last,
                   reported, g_call, g_ret>>

\* a report() call, made once, at the end of the run
Report ==
    /\ status = "live"
    /\ ~reported.called
    /\ \E lenient \in BOOLEAN :
         \E r \in {report(config, variables, timesteps, lenient)} :
             reported' = [called |-> TRUE, ok |-> r.ok, names |-> DOMAIN variables,
                          tables |-> r.tables, dict |-> r.dict]
    /\ UNCHANGED <<config, cupy, agents, current_timestep, current_time, timesteps,
                   variables, exports, status, last, g_call, g_ret>>

Next == Step \/ Advance \/ Report

Spec == Init /\ [][Next]_vars

(***************************************************************************)
(* The reducers applied to bounded inputs.                                 *)
(***************************************************************************)
SeqsUpTo(S, n) == UNION {[1..l -> S] : l \in 0..n}

InitGroup ==
    /\ \E n \in 1..MaxGroups :
         g_call \in [fn : {"none"},
                     values : SeqsUpTo({Num(TRUE, v) : v \in 0..MaxVal}, MaxLen),
                     group_ids : SeqsUpTo((-(n + 1))..n, MaxLen),
                     n_groups : {n}]
    /\ g_ret = NoRet
    /\ config = <<>>
    /\ cupy = FALSE
    /\ agents = [ids |-> <<>>, elems |-> <<>>]
    /\ current_timestep = 0
    /\ current_time = 0
    /\ timesteps = <<>>
    /\ variables = NoVariables
    /\ exports = <<>>
    /\ status = "dead"
    /\ last = Last([ok |-> TRUE, k |-> 0], NoVariables, <<>>, agents, TRUE)
    /\ reported = NoReport

CallSum ==
    /\ g_ret.st = "none"
    /\ \E oob \in {"crash", "stray"} :
         LET r == sum_per_ID(g_call.values, g_call.group_ids, g_call.n_groups, oob)
         IN  g_ret' = [fn |-> "sum", st |-> r.st, r |-> r.r]
    /\ UNCHANGED <<g_call, mainVars>>

CallMean ==
    /\ g_ret.st = "none"
    /\ \E oob \in {"crash", "stray"} :
         LET r == mean_per_ID(g_call.values, g_call.group_ids, g_call.n_groups, oob)
         IN  g_ret' = [fn |-> "mean", st |-> r.st, r |-> r.r]
    /\ UNCHANGED <<g_call, mainVars>>

NextGroup == CallSum \/ CallMean

SpecGroup == InitGroup /\ [][NextGroup]_vars

(***************************************************************************)
(* Properties.                                                             *)
(***************************************************************************)
Saves(conf) == conf.save \in {"save", "save+export"}
Exports(conf) == conf.save \in {"export", "save+export"}
Range(f) == {f[i] : i \in DOMAIN f}
SeriesOf(vs, name) == IF name \in DOMAIN vs THEN vs[name].s ELSE <<>>
SubSeriesOf(vs, name) == IF name \in DOMAIN vs THEN vs[name].m ELSE NoIds
IsPrefix(s, t) == Len(s) <= Len(t) /\ \A j \in 1..Len(s) : s[j] = t[j]
Directive(i) == config[i]
DirectiveIds == 1..Len(config)

\* C1: when the constructor and every step() call so far completed, each
\* non-split directive that saves holds one value per call, in call order:
\* the series is as long as self.timesteps, the series before the last call is
\* its prefix, and for a directive without a function the newest value is the
\* attribute the last call read.
C1_SeriesAlignedWithTimesteps ==
    (status = "live" /\ last.clean) =>
        \A i \in DirectiveIds :
            (~Directive(i).split /\ Saves(Directive(i))) =>
                /\ NameOf(i) \in DOMAIN variables
                /\ ~variables[NameOf(i)].split
                /\ Len(variables[NameOf(i)].s) = Len(timesteps)
                /\ Len(SeriesOf(last.before, NameOf(i))) = Len(last.tbefore)
                /\ IsPrefix(SeriesOf(last.before, NameOf(i)), variables[NameOf(i)].s)
                /\ (Directive(i).function = "none" =>
                        variables[NameOf(i)].s[Len(timesteps)] =
                            Unwrap(Attr(last.agents, Directive(i).varname)).v)

\* three completed calls of an initial_only save+export directive whose
\* buffered values differ from call to call
C1_Witness ==
    /\ status = "live" /\ last.clean /\ Len(timesteps) = 3
    /\ \E i \in DirectiveIds :
        /\ ~Directive(i).split /\ Directive(i).save = "save+export"
        /\ Directive(i).initial_only
        /\ Len(SeriesOf(variables, NameOf(i))) = 3
        /\ variables[NameOf(i)].s[1] # variables[NameOf(i)].s[2]
        /\ variables[NameOf(i)].s[2] # variables[NameOf(i)].s[3]

ExportCalls(name) == {j \in 1..Len(exports) : exports[j].name = name}

\* C2: an initial_only directive that exports has export_value invoked
\* exactly once, by the first step() call.
C2_InitialOnlyExportsOnce ==
    status = "live" =>
        \A i \in DirectiveIds :
            (Exports(Directive(i)) /\ Directive(i).initial_only) =>
                /\ Cardinality(ExportCalls(NameOf(i))) = 1
                /\ \A j \in ExportCalls(NameOf(i)) : exports[j].call = 1

StoredValues ==
    UNION {Range(variables[n].s) \cup UNION {Range(variables[n].m[id]) :
                                                id \in DOMAIN variables[n].m} :
           n \in DOMAIN variables}

\* C3: every scalar in the store is a number that is not infinite, or None;
\* an infinite float or a non-numeric object is never appended.
C3_StoredScalarsAreFinite ==
    \A v \in StoredValues :
        v.c = "scalar" => v.e[1].k \notin {"inf", "str"}

RECURSIVE RefSum(_, _, _, _)
RefSum(values, group_ids, g, i) ==
    IF i > Len(values) THEN 0
    ELSE (IF group_ids[i] = g THEN values[i].n ELSE 0) + RefSum(values, group_ids, g, i + 1)

InContract(c) ==
    /\ Len(c.values) = Len(c.group_ids)
    /\ \A i \in 1..Len(c.group_ids) : c.group_ids[i] \in 0..(c.n_groups - 1)

\* C4: for arrays of equal length with every id in [0, N), sum_per_ID returns
\* N slots, slot g holding the sum of the values of group g, 0 for an empty
\* group.
C4_SumPerGroup ==
    (g_ret.fn = "sum" /\ InContract(g_call)) =>
        /\ g_ret.st = "ok"
        /\ Len(g_ret.r) = g_call.n_groups
        /\ \A g \in 0..(g_call.n_groups - 1) :
              g_ret.r[g + 1] = Num(TRUE, RefSum(g_call.values, g_call.group_ids, g, 1))

\* a sum over two groups, one of them empty, the other with two members
C4_Witness ==
    /\ g_ret.fn = "sum" /\ g_ret.st = "ok" /\ InContract(g_call)
    /\ g_call.n_groups = 2
    /\ g_call.group_ids = <<1, 1>>
    /\ g_ret.r[2].n = g_call.values[1].n + g_call.values[2].n
    /\ g_call.values[1].n > 0 /\ g_call.values[2].n > 0
    /\ g_ret.r[1].n = 0

\* C5: a call whose arrays differ in length or that holds an id outside
\* [0, n_groups) fails with an assertion and returns nothing.
C5_OutOfContractAsserts ==
    (g_ret.st # "none" /\ ~InContract(g_call)) => g_ret.st = "assert"

CompletedSplitSave(i) ==
    /\ status = "live" /\ last.ok
    /\ Directive(i).split /\ Saves(Directive(i))

\* C6 as stated: after a completed step() the keys of a split directive's
\* mapping are the ids of the id list, and every sub-series grew by one.
C6_KeysEqualIdList ==
    \A i \in DirectiveIds :
        CompletedSplitSave(i) =>
            /\ NameOf(i) \in DOMAIN variables
            /\ DOMAIN variables[NameOf(i)].m = Range(last.agents.ids)
            /\ \A id \in DOMAIN variables[NameOf(i)].m :
                  Len(variables[NameOf(i)].m[id]) =
                      (IF id \in DOMAIN SubSeriesOf(last.before, NameOf(i))
                       THEN Len(SubSeriesOf(last.before, NameOf(i))[id]) ELSE 0) + 1

\* C6 amended: the keys are those present before the call together with the
\* ids of the id list; the sub-series of each listed id grew by one value and
\* the sub-series of an id that left the list is unchanged.
C6_KeysAccumulateIds ==
    \A i \in DirectiveIds :
        CompletedSplitSave(i) =>
            LET before == SubSeriesOf(last.before, NameOf(i))
                ids == Range(last.agents.ids)
            IN  /\ NameOf(i) \in DOMAIN variables
                /\ variables[NameOf(i)].split
                /\ DOMAIN variables[NameOf(i)].m = DOMAIN before \cup ids
                /\ \A id \in ids :
                      /\ Len(variables[NameOf(i)].m[id]) =
                            (IF id \in DOMAIN before THEN Len(before[id]) ELSE 0) + 1
                      /\ IsPrefix(IF id \in DOMAIN before THEN before[id] ELSE <<>>,
                                  variables[NameOf(i)].m[id])
                /\ \A id \in DOMAIN before \ ids :
                      variables[NameOf(i)].m[id] = before[id]

\* a completed call that read the id list <<"a">> after "b" had been recorded
C6_Witness ==
    \E i \in DirectiveIds :
        /\ CompletedSplitSave(i)
        /\ last.agents.ids = <<"a">>
        /\ NameOf(i) \in DOMAIN variables
        /\ DOMAIN variables[NameOf(i)].m = {"a", "b"}
        /\ Len(variables[NameOf(i)].m["a"]) = 3
        /\ Len(variables[NameOf(i)].m["b"]) = 1

\* the reduction of the directive applied to one value
Reduce(function, value) ==
    CASE function = "callable" -> callable(value)
      [] function = "mean" -> np_mean(value)
      [] OTHER -> np_sum(value)

\* C7: for a split directive with a whole-collection reduction, the value
\* reported under (name, id) is the reduction of that entity's own sub-value.
C7_SplitReducesSubValue ==
    \A i \in DirectiveIds :
        (/\ CompletedSplitSave(i)
         /\ Directive(i).function \in {"mean", "sum", "callable"}
         /\ ~Directive(i).has_ids) =>
            LET pairs == Zip(last.agents.ids, Attr(last.agents, Directive(i).varname))
            IN  \A p \in 1..Len(pairs) :
                    LET series == variables[NameOf(i)].m[pairs[p].ID]
                    IN  series[Len(series)] =
                            Unwrap(Reduce(Directive(i).function, pairs[p].admin_values).v).v

\* C8: a report() call that completes returns a mapping with an entry for
\* every name in the store.
C8_ReportReturnsTables ==
    (reported.called /\ reported.ok) => reported.dict = reported.names

\* C9: a snapshot written for an initial_only directive is named 'initial',
\* one written for any other directive is named by the recorded time.
C9_InitialOnlyFileName ==
    \A j \in 1..Len(exports) :
        exports[j].ok =>
            \A i \in DirectiveIds :
                NameOf(i) = exports[j].name =>
                    exports[j].file =
                        (IF Directive(i).initial_only THEN "initial" ELSE "timestamp")

\* C10: step() records the time first and stops at the first failure.  No
\* non-split series is longer than self.timesteps; and when the last call
\* raised in non-split directive k, self.timesteps gained one entry, every
\* saving directive before k appended one value (one per listed id when
\* split), and directive k and those after it appended nothing.
C10_FailedStepLeavesPrefix ==
    /\ \A n \in DOMAIN variables :
          ~variables[n].split => Len(variables[n].s) <= Len(timesteps)
    /\ (~last.ok /\ last.k \in DirectiveIds /\ ~Directive(last.k).split) =>
          /\ Len(timesteps) = Len(last.tbefore) + 1
          /\ \A i \in DirectiveIds :
                IF i >= last.k
                THEN /\ (NameOf(i) \in DOMAIN variables) = (NameOf(i) \in DOMAIN last.before)
                     /\ NameOf(i) \in DOMAIN variables =>
                            variables[NameOf(i)] = last.before[NameOf(i)]
                ELSE Saves(Directive(i)) =>
                     /\ NameOf(i) \in DOMAIN variables
                     /\ IF Directive(i).split
                        THEN \A id \in Range(last.agents.ids) :
                                Len(variables[NameOf(i)].m[id]) =
                                  (IF id \in DOMAIN SubSeriesOf(last.before, NameOf(i))
                                   THEN Len(SubSeriesOf(last.before, NameOf(i))[id])
                                   ELSE 0) + 1
                        ELSE Len(variables[NameOf(i)].s) =
                                Len(SeriesOf(last.before, NameOf(i))) + 1

\* a later step() call that raised in the second directive, after the first
\* directive had appended, leaving the second series shorter than the times
C10_Witness ==
    /\ status = "live" /\ ~last.ok /\ last.k = 2
    /\ Len(timesteps) = 2
    /\ ~Directive(1).split /\ Saves(Directive(1))
    /\ ~Directive(2).split /\ Saves(Directive(2))
    /\ Len(SeriesOf(variables, NameOf(1))) = 2
    /\ Len(SeriesOf(variables, NameOf(2))) = 1

====
